---- MODULE Spec2Model ----
(***************************************************************************)
(* A model of src/openproject_mcp_server/server.py: the FastMCP tool       *)
(* handlers, the lazily created global OpenProjectClient handle, and the   *)
(* arguments each handler hands to the client.  Tool invocations are       *)
(* asyncio tasks: they interleave only at their await points.              *)
(***************************************************************************)
EXTENDS Integers, Sequences, FiniteSets, TLC

VARIABLES env, client, constructed, pc, inv, handle, calls, result, trav,
          response, startup

vars ==
  <<env, client, constructed, pc, inv, handle, calls, result, trav, response,
    startup>>

(***************************************************************************)
(* Bounds of the model.                                                    *)
(***************************************************************************)
NumTasks == 2
MaxId == 2

Tasks == 1..NumTasks

(***************************************************************************)
(* Python values, tagged with their type.                                  *)
(***************************************************************************)
None == [tag |-> "none"]
I(n) == [tag |-> "int", int |-> n]
S(s) == [tag |-> "str", str |-> s]
B(b) == [tag |-> "bool", bool |-> b]
L(q) == [tag |-> "list", list |-> q]

\* Python truth value testing: `if x:` / `not x`.
Truthy(v) ==
  CASE v.tag = "none" -> FALSE
    [] v.tag = "int"  -> v.int # 0
    [] v.tag = "str"  -> v.str # ""
    [] v.tag = "bool" -> v.bool
    [] v.tag = "list" -> Len(v.list) > 0

\* Python str(x).
Str(v) ==
  CASE v.tag = "none" -> S("None")
    [] v.tag = "int"  -> S(ToString(v.int))
    [] v.tag = "str"  -> v
    [] v.tag = "bool" -> S(IF v.bool THEN "True" ELSE "False")

\* Python str.lower() on the values the environment can hold.
Lower(s) ==
  CASE s = "True" -> "true"
    [] s = "TRUE" -> "true"
    [] OTHER      -> s

(***************************************************************************)
(* json.dumps of a filter list.  A predicate {field: {"operator": op,      *)
(* "values": [...]}} is the record [field, operator, values].              *)
(***************************************************************************)
Pred(f, op, vs) == [field |-> f, operator |-> op, values |-> vs]

JsonValue(v) ==
  CASE v.tag = "none" -> "null"
    [] v.tag = "int"  -> ToString(v.int)
    [] v.tag = "str"  -> "\"" \o v.str \o "\""
    [] v.tag = "bool" -> IF v.bool THEN "true" ELSE "false"

\* ", ".join(q) for a sequence of rendered items.
RECURSIVE JsonJoin(_)
JsonJoin(q) ==
  IF Len(q) = 0 THEN ""
  ELSE IF Len(q) = 1 THEN q[1]
  ELSE q[1] \o ", " \o JsonJoin(Tail(q))

JsonPred(p) ==
  "{\"" \o p.field \o "\": {\"operator\": \"" \o p.operator
     \o "\", \"values\": ["
     \o JsonJoin([i \in 1..Len(p.values) |-> JsonValue(p.values[i])])
     \o "]}}"

json_dumps(filters) ==
  S("[" \o JsonJoin([i \in 1..Len(filters) |-> JsonPred(filters[i])]) \o "]")

(***************************************************************************)
(* Python dicts are functions from key strings to values.                  *)
(***************************************************************************)
EmptyDict == <<>>
Put(d, k, v) == (k :> v) @@ d
Keys(d) == DOMAIN d

(***************************************************************************)
(* What a handler body does after `c = await get_client()`: it either      *)
(* returns a text without calling the client, or awaits one client         *)
(* operation.                                                              *)
(***************************************************************************)
Call(c) == [kind |-> "call", call |-> c]
Ret(r) == [kind |-> "return", result |-> r]

Ok == [kind |-> "ok"]
Error(m) == [kind |-> "error", msg |-> m]

ConfigMsg == "OPENPROJECT_URL and OPENPROJECT_API_KEY must be set"
MembershipMsg == "Either user_id or group_id must be provided"
RemoteMsg == "remote failure"

\* test_connection tool: result = await c.test_connection()
test_connection(a) == Call([op |-> "test_connection"])

\* list_projects: filters = None, or the dumped "active" predicate.
list_projects(a) ==
  LET filters == IF Truthy(a.active_only)
                 THEN json_dumps(<<Pred("active", "=", <<S("t")>>)>>)
                 ELSE None
  IN Call([op |-> "get_projects", filters |-> filters])

\* list_work_packages dumping the predicate list even when it is empty.
list_work_packages_dumps_empty(a) ==
  LET filters == IF a.status = S("open")
                 THEN <<Pred("status", "o", <<>>)>>
                 ELSE IF a.status = S("closed")
                 THEN <<Pred("status", "c", <<>>)>>
                 ELSE <<>>
  IN Call([op |-> "get_work_packages", project_id |-> a.project_id,
           filters |-> json_dumps(filters), offset |-> a.offset,
           page_size |-> a.page_size])

\* list_work_packages with the two status operators exchanged.
list_work_packages_swapped_ops(a) ==
  LET filters == IF a.status = S("open")
                 THEN <<Pred("status", "c", <<>>)>>
                 ELSE IF a.status = S("closed")
                 THEN <<Pred("status", "o", <<>>)>>
                 ELSE <<>>
      filters_str == IF Len(filters) > 0 THEN json_dumps(filters) ELSE None
  IN Call([op |-> "get_work_packages", project_id |-> a.project_id,
           filters |-> filters_str, offset |-> a.offset,
           page_size |-> a.page_size])

\* list_work_packages building the status predicate only when no project
\* is given.
list_work_packages_project_only(a) ==
  LET filters == IF a.project_id # None THEN <<>>
                 ELSE IF a.status = S("open")
                 THEN <<Pred("status", "o", <<>>)>>
                 ELSE IF a.status = S("closed")
                 THEN <<Pred("status", "c", <<>>)>>
                 ELSE <<>>
      filters_str == IF Len(filters) > 0 THEN json_dumps(filters) ELSE None
  IN Call([op |-> "get_work_packages", project_id |-> a.project_id,
           filters |-> filters_str, offset |-> a.offset,
           page_size |-> a.page_size])

\* list_work_packages passing offset and page_size in each other's place.
list_work_packages_swapped_page(a) ==
  LET filters == IF a.status = S("open")
                 THEN <<Pred("status", "o", <<>>)>>
                 ELSE IF a.status = S("closed")
                 THEN <<Pred("status", "c", <<>>)>>
                 ELSE <<>>
      filters_str == IF Len(filters) > 0 THEN json_dumps(filters) ELSE None
  IN Call([op |-> "get_work_packages", project_id |-> a.project_id,
           filters |-> filters_str, offset |-> a.page_size,
           page_size |-> a.offset])

\* list_work_packages: the status predicate list, dumped only if non-empty.
\* list_work_packages comparing the status without regard to case.
list_work_packages_any_case(a) ==
  LET filters == IF a.status \in {S("open"), S("Open")}
                 THEN <<Pred("status", "o", <<>>)>>
                 ELSE IF a.status \in {S("closed"), S("Closed")}
                 THEN <<Pred("status", "c", <<>>)>>
                 ELSE <<>>
      filters_str == IF Len(filters) > 0 THEN json_dumps(filters) ELSE None
  IN Call([op |-> "get_work_packages", project_id |-> a.project_id,
           filters |-> filters_str, offset |-> a.offset,
           page_size |-> a.page_size])

list_work_packages(a) ==
  LET filters == IF a.status = S("open")
                 THEN <<Pred("status", "o", <<>>)>>
                 ELSE IF a.status = S("closed")
                 THEN <<Pred("status", "c", <<>>)>>
                 ELSE <<>>
      filters_str == IF Len(filters) > 0 THEN json_dumps(filters) ELSE None
  IN Call([op |-> "get_work_packages", project_id |-> a.project_id,
           filters |-> filters_str, offset |-> a.offset,
           page_size |-> a.page_size])

\* list_users: filters = None, or the dumped status = "active" predicate.
list_users(a) ==
  LET filters == IF Truthy(a.active_only)
                 THEN json_dumps(<<Pred("status", "=", <<S("active")>>)>>)
                 ELSE None
  IN Call([op |-> "get_users", filters |-> filters])

\* list_time_entries without the str() around the ids.
list_time_entries_no_str(a) ==
  LET f1 == IF Truthy(a.work_package_id)
            THEN <<Pred("work_package_id", "=", <<a.work_package_id>>)>>
            ELSE <<>>
      f2 == IF Truthy(a.user_id)
            THEN <<Pred("user_id", "=", <<a.user_id>>)>>
            ELSE <<>>
      filters == f1 \o f2
      filters_str == IF Len(filters) > 0 THEN json_dumps(filters) ELSE None
  IN Call([op |-> "get_time_entries", filters |-> filters_str])

\* list_time_entries: one "=" predicate per truthy argument.
list_time_entries(a) ==
  LET f1 == IF Truthy(a.work_package_id)
            THEN <<Pred("work_package_id", "=", <<Str(a.work_package_id)>>)>>
            ELSE <<>>
      f2 == IF Truthy(a.user_id)
            THEN <<Pred("user_id", "=", <<Str(a.user_id)>>)>>
            ELSE <<>>
      filters == f1 \o f2
      filters_str == IF Len(filters) > 0 THEN json_dumps(filters) ELSE None
  IN Call([op |-> "get_time_entries", filters |-> filters_str])

\* list_work_package_relations: "involved" and "type" predicates.
list_work_package_relations(a) ==
  LET f1 == IF Truthy(a.work_package_id)
            THEN <<Pred("involved", "=", <<Str(a.work_package_id)>>)>>
            ELSE <<>>
      f2 == IF Truthy(a.relation_type)
            THEN <<Pred("type", "=", <<a.relation_type>>)>>
            ELSE <<>>
      filters == f1 \o f2
      filters_str == IF Len(filters) > 0 THEN json_dumps(filters) ELSE None
  IN Call([op |-> "list_work_package_relations", filters |-> filters_str])

\* create_work_package_relation: builds data and calls the client.
create_work_package_relation(a) ==
  LET d0 == Put(Put(Put(EmptyDict, "from_id", a.from_id), "to_id", a.to_id),
                "relation_type", a.relation_type)
      d1 == IF a.lag # None THEN Put(d0, "lag", a.lag) ELSE d0
      data == IF Truthy(a.description)
              THEN Put(d1, "description", a.description) ELSE d1
  IN Call([op |-> "create_work_package_relation", data |-> data])

\* create_membership: user_id, else group_id, else the local error text.
create_membership(a) ==
  LET d0 == Put(EmptyDict, "project_id", a.project_id)
      d1 == IF Truthy(a.user_id) THEN Put(d0, "user_id", a.user_id)
            ELSE Put(d0, "group_id", a.group_id)
      data == IF Truthy(a.role_ids) THEN Put(d1, "role_ids", a.role_ids)
              ELSE IF Truthy(a.role_id) THEN Put(d1, "role_id", a.role_id)
              ELSE d1
  IN IF ~Truthy(a.user_id) /\ ~Truthy(a.group_id)
     THEN Ret(Error(MembershipMsg))
     ELSE Call([op |-> "create_membership", data |-> data])

\* `if v is not None: data[k] = v` and `if v: data[k] = v`.
PutIfNotNone(d, k, v) == IF v # None THEN Put(d, k, v) ELSE d
PutIfTruthy(d, k, v) == IF Truthy(v) THEN Put(d, k, v) ELSE d

get_project(a) == Call([op |-> "get_project", id |-> a.project_id])

create_project(a) ==
  LET d0 == Put(Put(Put(EmptyDict, "name", a.name), "identifier", a.identifier),
                "public", a.public)
      d1 == PutIfTruthy(d0, "description", a.description)
      d2 == PutIfTruthy(d1, "status", a.status)
      data == PutIfTruthy(d2, "parent_id", a.parent_id)
  IN Call([op |-> "create_project", data |-> data])

get_work_package(a) == Call([op |-> "get_work_package", id |-> a.work_package_id])

\* create_work_package: the keys are "project" and "type", not *_id.
create_work_package(a) ==
  LET d0 == Put(Put(Put(EmptyDict, "project", a.project_id), "subject", a.subject),
                "type", a.type_id)
      d1 == PutIfTruthy(d0, "description", a.description)
      d2 == PutIfTruthy(d1, "priority_id", a.priority_id)
      data == PutIfTruthy(d2, "assignee_id", a.assignee_id)
  IN Call([op |-> "create_work_package", data |-> data])

\* update_work_package with truthiness tests in place of `is not None`.
update_work_package_truthy(a) ==
  LET d1 == PutIfTruthy(EmptyDict, "subject", a.subject)
      d2 == PutIfTruthy(d1, "description", a.description)
      d3 == PutIfTruthy(d2, "type_id", a.type_id)
      d4 == PutIfTruthy(d3, "status_id", a.status_id)
      d5 == PutIfTruthy(d4, "priority_id", a.priority_id)
      d6 == PutIfTruthy(d5, "assignee_id", a.assignee_id)
      data == PutIfTruthy(d6, "percentage_done", a.percentage_done)
  IN Call([op |-> "update_work_package", id |-> a.work_package_id, data |-> data])

update_work_package(a) ==
  LET d1 == PutIfNotNone(EmptyDict, "subject", a.subject)
      d2 == PutIfNotNone(d1, "description", a.description)
      d3 == PutIfNotNone(d2, "type_id", a.type_id)
      d4 == PutIfNotNone(d3, "status_id", a.status_id)
      d5 == PutIfNotNone(d4, "priority_id", a.priority_id)
      d6 == PutIfNotNone(d5, "assignee_id", a.assignee_id)
      data == PutIfNotNone(d6, "percentage_done", a.percentage_done)
  IN Call([op |-> "update_work_package", id |-> a.work_package_id, data |-> data])

delete_work_package(a) == Call([op |-> "delete_work_package", id |-> a.work_package_id])

list_types(a) == Call([op |-> "get_types", project_id |-> a.project_id])

get_user(a) == Call([op |-> "get_user", id |-> a.user_id])

list_statuses(a) == Call([op |-> "get_statuses"])

list_priorities(a) == Call([op |-> "get_priorities"])

update_project(a) ==
  LET d1 == PutIfNotNone(EmptyDict, "name", a.name)
      d2 == PutIfNotNone(d1, "identifier", a.identifier)
      d3 == PutIfNotNone(d2, "description", a.description)
      d4 == PutIfNotNone(d3, "public", a.public)
      d5 == PutIfNotNone(d4, "status", a.status)
      data == PutIfNotNone(d5, "parent_id", a.parent_id)
  IN Call([op |-> "update_project", id |-> a.project_id, data |-> data])

delete_project(a) == Call([op |-> "delete_project", id |-> a.project_id])

list_memberships(a) ==
  Call([op |-> "get_memberships", project_id |-> a.project_id,
        user_id |-> a.user_id])

\* update_membership sending role_id whenever it is given.
update_membership_both(a) ==
  LET d1 == PutIfTruthy(EmptyDict, "role_ids", a.role_ids)
      data == PutIfTruthy(d1, "role_id", a.role_id)
  IN Call([op |-> "update_membership", id |-> a.membership_id, data |-> data])

\* update_membership: role_ids, else role_id.
update_membership(a) ==
  LET data == IF Truthy(a.role_ids) THEN Put(EmptyDict, "role_ids", a.role_ids)
              ELSE IF Truthy(a.role_id) THEN Put(EmptyDict, "role_id", a.role_id)
              ELSE EmptyDict
  IN Call([op |-> "update_membership", id |-> a.membership_id, data |-> data])

delete_membership(a) == Call([op |-> "delete_membership", id |-> a.membership_id])

get_membership(a) == Call([op |-> "get_membership", id |-> a.membership_id])

list_roles(a) == Call([op |-> "get_roles"])

get_role(a) == Call([op |-> "get_role", id |-> a.role_id])

list_time_entry_activities(a) == Call([op |-> "get_time_entry_activities"])

create_time_entry(a) ==
  LET d0 == Put(Put(Put(EmptyDict, "work_package_id", a.work_package_id),
                    "hours", a.hours), "spent_on", a.spent_on)
      d1 == PutIfTruthy(d0, "comment", a.comment)
      data == PutIfTruthy(d1, "activity_id", a.activity_id)
  IN Call([op |-> "create_time_entry", data |-> data])

update_time_entry(a) ==
  LET d1 == PutIfNotNone(EmptyDict, "hours", a.hours)
      d2 == PutIfNotNone(d1, "spent_on", a.spent_on)
      d3 == PutIfNotNone(d2, "comment", a.comment)
      data == PutIfNotNone(d3, "activity_id", a.activity_id)
  IN Call([op |-> "update_time_entry", id |-> a.time_entry_id, data |-> data])

delete_time_entry(a) == Call([op |-> "delete_time_entry", id |-> a.time_entry_id])

list_versions(a) == Call([op |-> "get_versions", project_id |-> a.project_id])

create_version(a) ==
  LET d1 == PutIfTruthy(Put(EmptyDict, "name", a.name), "description", a.description)
      d2 == PutIfTruthy(d1, "start_date", a.start_date)
      d3 == PutIfTruthy(d2, "end_date", a.end_date)
      data == PutIfTruthy(d3, "status", a.status)
  IN Call([op |-> "create_version", project_id |-> a.project_id, data |-> data])

set_work_package_parent(a) ==
  Call([op |-> "set_work_package_parent", id |-> a.work_package_id,
        parent_id |-> a.parent_id])

remove_work_package_parent(a) ==
  Call([op |-> "remove_work_package_parent", id |-> a.work_package_id])

\* list_work_package_children always asking for the direct children only.
list_work_package_children_direct(a) ==
  Call([op |-> "list_work_package_children", parent_id |-> a.parent_id,
        include_descendants |-> B(FALSE)])

list_work_package_children(a) ==
  Call([op |-> "list_work_package_children", parent_id |-> a.parent_id,
        include_descendants |-> a.include_descendants])

update_work_package_relation(a) ==
  LET d1 == PutIfNotNone(EmptyDict, "relation_type", a.relation_type)
      d2 == PutIfNotNone(d1, "lag", a.lag)
      data == PutIfNotNone(d2, "description", a.description)
  IN Call([op |-> "update_work_package_relation", id |-> a.relation_id,
           data |-> data])

delete_work_package_relation(a) ==
  Call([op |-> "delete_work_package_relation", id |-> a.relation_id])

get_work_package_relation(a) ==
  Call([op |-> "get_work_package_relation", id |-> a.relation_id])

check_permissions(a) == Call([op |-> "check_permissions"])

ToolBody(tool, a) ==
  CASE tool = "test_connection"               -> test_connection(a)
    [] tool = "list_projects"                 -> list_projects(a)
    [] tool = "list_work_packages"            -> list_work_packages(a)
    [] tool = "list_users"                    -> list_users(a)
    [] tool = "list_time_entries"             -> list_time_entries(a)
    [] tool = "list_work_package_relations"   -> list_work_package_relations(a)
    [] tool = "create_work_package_relation"  -> create_work_package_relation(a)
    [] tool = "create_membership"             -> create_membership(a)
    [] tool = "get_project"                   -> get_project(a)
    [] tool = "create_project"                -> create_project(a)
    [] tool = "get_work_package"              -> get_work_package(a)
    [] tool = "create_work_package"           -> create_work_package(a)
    [] tool = "update_work_package"           -> update_work_package(a)
    [] tool = "delete_work_package"           -> delete_work_package(a)
    [] tool = "list_types"                    -> list_types(a)
    [] tool = "get_user"                      -> get_user(a)
    [] tool = "list_statuses"                 -> list_statuses(a)
    [] tool = "list_priorities"               -> list_priorities(a)
    [] tool = "update_project"                -> update_project(a)
    [] tool = "delete_project"                -> delete_project(a)
    [] tool = "list_memberships"              -> list_memberships(a)
    [] tool = "update_membership"             -> update_membership(a)
    [] tool = "delete_membership"             -> delete_membership(a)
    [] tool = "get_membership"                -> get_membership(a)
    [] tool = "list_roles"                    -> list_roles(a)
    [] tool = "get_role"                      -> get_role(a)
    [] tool = "list_time_entry_activities"    -> list_time_entry_activities(a)
    [] tool = "create_time_entry"             -> create_time_entry(a)
    [] tool = "update_time_entry"             -> update_time_entry(a)
    [] tool = "delete_time_entry"             -> delete_time_entry(a)
    [] tool = "list_versions"                 -> list_versions(a)
    [] tool = "create_version"                -> create_version(a)
    [] tool = "set_work_package_parent"       -> set_work_package_parent(a)
    [] tool = "remove_work_package_parent"    -> remove_work_package_parent(a)
    [] tool = "list_work_package_children"    -> list_work_package_children(a)
    [] tool = "update_work_package_relation"  -> update_work_package_relation(a)
    [] tool = "delete_work_package_relation"  -> delete_work_package_relation(a)
    [] tool = "get_work_package_relation"     -> get_work_package_relation(a)
    [] tool = "check_permissions"             -> check_permissions(a)

(***************************************************************************)
(* What the awaited client operation gives back: it raises with a message, *)
(* or returns a decoded JSON object (a dict; nested dicts and lists are    *)
(* functions and sequences, leaves are tagged values).                     *)
(***************************************************************************)
Raise(m) == [raise |-> m]
Returns(v) == [ret |-> v]

Has(d, k) == k \in DOMAIN d
\* d.get(k, default)
Get(d, k, default) == IF Has(d, k) THEN d[k] ELSE default
\* str(KeyError(k))
KeyErrorMsg(k) == "'" \o k \o "'"

MinOf(set) == CHOOSE x \in set : \A y \in set : x <= y

\* The texts a handler returns, without their wording.
OkWith(d) == [kind |-> "ok", shown |-> d]
Empty(m) == [kind |-> "empty", msg |-> m]
Listing(rows, total) == [kind |-> "list", rows |-> rows, total |-> total]

\* result.get("_embedded", {}).get("elements", [])
Elements(r) == Get(Get(r, "_embedded", EmptyDict), "elements", <<>>)

\* The common shape of the list handlers: "No ... found." for no elements,
\* else one row per element, reading the keys in req with item[key].
ListResult(r, req, emptyMsg) ==
  LET items == Elements(r)
      bad == { i \in DOMAIN items : \E j \in DOMAIN req : ~Has(items[i], req[j]) }
  IN IF items = <<>> THEN Empty(emptyMsg)
     ELSE IF bad # {}
     THEN LET item == items[MinOf(bad)]
          IN Error(KeyErrorMsg(req[MinOf({ j \in DOMAIN req : ~Has(item, req[j]) })]))
     ELSE Listing([i \in DOMAIN items |-> [j \in DOMAIN req |-> items[i][req[j]]]],
                  I(Len(items)))

\* test_connection after the await.
test_connection_result(a, r) ==
  IF Truthy(Get(r, "instanceName", None))
  THEN OkWith(("instanceName" :> r["instanceName"])
              @@ ("coreVersion" :> Get(r, "coreVersion", S("Unknown"))))
  ELSE Ok

\* list_work_packages reading the status with wp["_embedded"]["status"].
list_work_packages_result_strict(a, r) ==
  LET work_packages == Elements(r)
      total == Get(r, "total", I(Len(work_packages)))
      NoStatus(wp) == ~Has(wp, "_embedded") \/ ~Has(wp["_embedded"], "status")
      Row(wp) ==
        [id |-> wp["id"], subject |-> wp["subject"],
         status_name |-> Get(wp["_embedded"]["status"], "name", S("Unknown")),
         wp_type |-> Get(Get(wp["_embedded"], "type", EmptyDict), "name",
                         S("N/A"))]
  IN IF work_packages = <<>> THEN Empty("No work packages found.")
     ELSE IF \E i \in DOMAIN work_packages :
               ~Has(work_packages[i], "id") \/ ~Has(work_packages[i], "subject")
     THEN Error(KeyErrorMsg("id"))
     ELSE IF \E i \in DOMAIN work_packages : NoStatus(work_packages[i])
     THEN Error(KeyErrorMsg("_embedded"))
     ELSE Listing([i \in DOMAIN work_packages |-> Row(work_packages[i])], total)

\* list_work_packages after the await: total defaults to len(work_packages),
\* the status name to "Unknown".
list_work_packages_result(a, r) ==
  LET work_packages == Elements(r)
      total == Get(r, "total", I(Len(work_packages)))
      req == <<"id", "subject">>
      bad == { i \in DOMAIN work_packages :
                 \E j \in DOMAIN req : ~Has(work_packages[i], req[j]) }
      Row(wp) ==
        [id |-> wp["id"], subject |-> wp["subject"],
         status_name |-> Get(Get(Get(wp, "_embedded", EmptyDict), "status",
                                 EmptyDict), "name", S("Unknown")),
         wp_type |-> Get(Get(Get(wp, "_embedded", EmptyDict), "type",
                             EmptyDict), "name", S("N/A"))]
  IN IF work_packages = <<>> THEN Empty("No work packages found.")
     ELSE IF bad # {}
     THEN LET wp == work_packages[MinOf(bad)]
          IN Error(KeyErrorMsg(req[MinOf({ j \in DOMAIN req : ~Has(wp, req[j]) })]))
     ELSE Listing([i \in DOMAIN work_packages |-> Row(work_packages[i])], total)

\* ReadResult reading every key with r.get(key, "N/A").
ReadResult_lenient(r, req) == OkWith([j \in DOMAIN req |-> Get(r, req[j], S("N/A"))])

\* The common shape of the get/create/update handlers that print fields
\* of the returned resource: the keys in req are read with r[key].
ReadResult(r, req) ==
  LET miss == { j \in DOMAIN req : ~Has(r, req[j]) }
  IN IF miss # {} THEN Error(KeyErrorMsg(req[MinOf(miss)]))
     ELSE OkWith([j \in DOMAIN req |-> r[req[j]]])

\* get_work_package after the await.
get_work_package_result(a, r) ==
  LET read == ReadResult(r, <<"id", "subject">>)
  IN IF read.kind = "error" THEN read
     ELSE OkWith(("id" :> r["id"]) @@ ("subject" :> r["subject"])
                 @@ ("status" :> Get(Get(Get(r, "_embedded", EmptyDict), "status",
                                         EmptyDict), "name", S("Unknown")))
                 @@ ("type" :> Get(Get(Get(r, "_embedded", EmptyDict), "type",
                                       EmptyDict), "name", S("N/A"))))

\* list_time_entry_activities after the await: result['total'] is read
\* before the elements are.
list_time_entry_activities_result(a, r) ==
  LET listed == ListResult(r, <<"name", "id">>, "No time entry activities found")
  IN IF listed.kind = "empty" THEN listed
     ELSE IF ~Has(r, "total") THEN Error(KeyErrorMsg("total"))
     ELSE IF listed.kind = "error" THEN listed
     ELSE Listing(listed.rows, r["total"])

\* Each handler after its await, given the object r the operation returned:
\* the list handlers read the elements and the keys they print, the get,
\* create and update handlers the keys they print, and the others return
\* their fixed text.
ToolResult(tool, a, r) ==
  CASE tool = "test_connection"               -> test_connection_result(a, r)
    [] tool = "list_projects" ->
        ListResult(r, <<"name", "id">>, "No projects found.")
    [] tool = "list_work_packages"            -> list_work_packages_result(a, r)
    [] tool = "list_users" -> ListResult(r, <<"id">>, "No users found.")
    [] tool = "list_time_entries" ->
        ListResult(r, <<>>, "No time entries found.")
    [] tool = "list_work_package_relations" ->
        ListResult(r, <<>>, "No relations found.")
    [] tool = "create_work_package_relation" -> Ok
    [] tool = "create_membership" -> Ok
    [] tool = "get_project" -> ReadResult(r, <<"name", "id">>)
    [] tool = "create_project" -> ReadResult(r, <<"name", "id">>)
    [] tool = "get_work_package"                    -> get_work_package_result(a, r)
    [] tool = "create_work_package" -> ReadResult(r, <<"id", "subject">>)
    [] tool = "update_work_package" -> ReadResult(r, <<"id", "subject">>)
    [] tool = "delete_work_package" -> Ok
    [] tool = "list_types" -> ListResult(r, <<"name", "id">>, "No types found.")
    [] tool = "get_user" -> ReadResult(r, <<"id">>)
    [] tool = "list_statuses" ->
        ListResult(r, <<"name", "id">>, "No statuses found.")
    [] tool = "list_priorities" ->
        ListResult(r, <<"name", "id">>, "No priorities found.")
    [] tool = "update_project" -> ReadResult(r, <<"name", "id">>)
    [] tool = "delete_project" -> Ok
    [] tool = "list_memberships" -> ListResult(r, <<>>, "No memberships found.")
    [] tool = "update_membership" -> Ok
    [] tool = "delete_membership" -> Ok
    [] tool = "get_membership" -> ReadResult(r, <<"id">>)
    [] tool = "list_roles" -> ListResult(r, <<"name", "id">>, "No roles found.")
    [] tool = "get_role" -> ReadResult(r, <<"name", "id">>)
    [] tool = "list_time_entry_activities"          -> list_time_entry_activities_result(a, r)
    [] tool = "create_time_entry" -> Ok
    [] tool = "update_time_entry" -> Ok
    [] tool = "delete_time_entry" -> Ok
    [] tool = "list_versions" ->
        ListResult(r, <<"name", "id">>, "No versions found.")
    [] tool = "create_version" -> Ok
    [] tool = "set_work_package_parent" -> Ok
    [] tool = "remove_work_package_parent" -> Ok
    [] tool = "list_work_package_children" ->
        ListResult(r, <<"id", "subject">>, "No children found")
    [] tool = "update_work_package_relation" -> Ok
    [] tool = "delete_work_package_relation" -> Ok
    [] tool = "get_work_package_relation" -> ReadResult(r, <<"id">>)
    [] tool = "check_permissions" -> ReadResult(r, <<"id">>)

\* A handler answering a failed operation as it answers an empty object.
AfterOp_default(tool, a, resp) ==
  IF Has(resp, "raise") THEN ToolResult(tool, a, EmptyDict)
  ELSE ToolResult(tool, a, resp["ret"])

\* The handler from the await on: an exception of the client operation is
\* caught by `except Exception as e` and its str(e) returned.
AfterOp(tool, a, resp) ==
  IF Has(resp, "raise") THEN Error(resp["raise"])
  ELSE ToolResult(tool, a, resp["ret"])

(***************************************************************************)
(* get_client: the lazily created global handle.                           *)
(***************************************************************************)
\* os.getenv(name, default)
Getenv(name, default) == IF env[name] = None THEN default ELSE env[name]

\* OpenProjectClient(base_url, api_key, proxy): a new object each time.
OpenProjectClient(base_url, api_key, proxy) ==
  [tag |-> "client", id |-> constructed + 1, base_url |-> base_url,
   api_key |-> api_key, proxy |-> proxy]

\* get_client raising only when both settings are missing.
get_client_and ==
  LET base_url == Getenv("OPENPROJECT_URL", None)
      api_key  == Getenv("OPENPROJECT_API_KEY", None)
      proxy    == Getenv("OPENPROJECT_PROXY", None)
      test     == Lower(Getenv("TEST_CONNECTION_ON_STARTUP", S("false")).str)
                    = "true"
  IN IF client # None
     THEN [outcome |-> "return", handle |-> client,
           constructs |-> FALSE, awaits |-> FALSE]
     ELSE IF ~Truthy(base_url) /\ ~Truthy(api_key)
     THEN [outcome |-> "raise", handle |-> None,
           constructs |-> FALSE, awaits |-> FALSE]
     ELSE [outcome |-> "return",
           handle |-> OpenProjectClient(base_url, api_key, proxy),
           constructs |-> TRUE, awaits |-> test]

\* get_client without the `if client is None` test: a client per call.
get_client_no_cache ==
  LET base_url == Getenv("OPENPROJECT_URL", None)
      api_key  == Getenv("OPENPROJECT_API_KEY", None)
      proxy    == Getenv("OPENPROJECT_PROXY", None)
      test     == Lower(Getenv("TEST_CONNECTION_ON_STARTUP", S("false")).str)
                    = "true"
  IN IF ~Truthy(base_url) \/ ~Truthy(api_key)
     THEN [outcome |-> "raise", handle |-> None,
           constructs |-> FALSE, awaits |-> FALSE]
     ELSE [outcome |-> "return",
           handle |-> OpenProjectClient(base_url, api_key, proxy),
           constructs |-> TRUE, awaits |-> test]

\* The synchronous part of get_client, up to its only await.
get_client ==
  LET base_url == Getenv("OPENPROJECT_URL", None)
      api_key  == Getenv("OPENPROJECT_API_KEY", None)
      proxy    == Getenv("OPENPROJECT_PROXY", None)
      test     == Lower(Getenv("TEST_CONNECTION_ON_STARTUP", S("false")).str)
                    = "true"
  IN IF client # None
     THEN [outcome |-> "return", handle |-> client,
           constructs |-> FALSE, awaits |-> FALSE]
     ELSE IF ~Truthy(base_url) \/ ~Truthy(api_key)
     THEN [outcome |-> "raise", handle |-> None,
           constructs |-> FALSE, awaits |-> FALSE]
     ELSE [outcome |-> "return",
           handle |-> OpenProjectClient(base_url, api_key, proxy),
           constructs |-> TRUE, awaits |-> test]

(***************************************************************************)
(* OpenProjectClient.list_work_package_children (4.5): a worklist of ids   *)
(* whose children are still to be fetched, the set of ids seen, and the    *)
(* flat result.  One request per id taken off the worklist.                *)
(***************************************************************************)
NumNodes == 4
MaxEdges == 3
MaxFetches == 6

Nodes == 1..NumNodes

NoTrav == [active |-> FALSE]

\* The ids of a set in increasing order.
RECURSIVE SeqOf(_)
SeqOf(set) ==
  IF set = {} THEN <<>>
  ELSE LET m == MinOf(set) IN <<m>> \o SeqOf(set \ {m})

Range(q) == { q[i] : i \in DOMAIN q }

StartTraversal(call) ==
  [active |-> TRUE, parent |-> call.parent_id.int,
   descend |-> Truthy(call.include_descendants),
   pending |-> <<call.parent_id.int>>, visited |-> {call.parent_id.int},
   acc |-> <<>>, fetched |-> <<>>]

\* The traversal after a request without the test against the ids seen.
TraversalStep_revisit(tr, children) ==
  LET new == SeqOf(children)
  IN [tr EXCEPT !.pending = Tail(@) \o (IF tr.descend THEN new ELSE <<>>),
                !.visited = @ \cup children,
                !.acc = @ \o new,
                !.fetched = Append(@, <<Head(tr.pending), children>>)]

\* The traversal after the request for Head(pending) returned `children`.
TraversalStep(tr, children) ==
  LET new == IF tr.descend THEN SeqOf(children \ tr.visited)
             ELSE SeqOf(children)
  IN [tr EXCEPT !.pending = Tail(@) \o (IF tr.descend THEN new ELSE <<>>),
                !.visited = @ \cup children,
                !.acc = @ \o new,
                !.fetched = Append(@, <<Head(tr.pending), children>>)]

\* The envelope the finished traversal returns.
TraversalEnvelope(tr) ==
  ("_embedded" :> ("elements" :>
      [i \in DOMAIN tr.acc |-> ("id" :> I(tr.acc[i])) @@ ("subject" :> S("s"))]))
    @@ ("total" :> I(Len(tr.acc)))

\* The number of parent/child edges the service has reported so far.
RECURSIVE EdgesSeen(_)
EdgesSeen(fetched) ==
  IF fetched = <<>> THEN 0
  ELSE Cardinality(Head(fetched)[2]) + EdgesSeen(Tail(fetched))

(***************************************************************************)
(* Actions.  pc[t] is the await point task t is suspended at:              *)
(*   "idle"        no invocation in progress                               *)
(*   "get_client"  inside get_client, awaiting client.test_connection()    *)
(*   "call"        awaiting the handler's client operation                 *)
(*   "done"        the handler has returned its text                       *)
(***************************************************************************)
NoInv == [tool |-> "none"]

\* The environments a process can be started in.
Envs ==
  { [OPENPROJECT_URL |-> u, OPENPROJECT_API_KEY |-> k,
     OPENPROJECT_PROXY |-> None, TEST_CONNECTION_ON_STARTUP |-> f] :
      u \in {None, S(""), S("https://op.example")},
      k \in {None, S(""), S("key")},
      f \in {None, S("True"), S("false")} }

Init ==
  /\ env \in Envs
  /\ client = None
  /\ constructed = 0
  /\ pc = [t \in Tasks |-> "idle"]
  /\ inv = [t \in Tasks |-> NoInv]
  /\ handle = [t \in Tasks |-> None]
  /\ calls = [t \in Tasks |-> <<>>]
  /\ result = [t \in Tasks |-> None]
  /\ trav = [t \in Tasks |-> NoTrav]
  /\ response = [t \in Tasks |-> None]
  /\ startup = "none"

\* The handler body after get_client returned c: up to its await or return.
Body(t, tool, a, c) ==
  LET step == ToolBody(tool, a)
  IN /\ handle' = [handle EXCEPT ![t] = c]
     /\ IF step.kind = "return"
        THEN /\ pc' = [pc EXCEPT ![t] = "done"]
             /\ result' = [result EXCEPT ![t] = step.result]
             /\ calls' = calls
             /\ trav' = trav
        ELSE /\ pc' = [pc EXCEPT ![t] = "call"]
             /\ calls' = [calls EXCEPT ![t] = Append(@, step.call)]
             /\ result' = result
             /\ trav' = IF step.call.op = "list_work_package_children"
                        THEN [trav EXCEPT ![t] = StartTraversal(step.call)]
                        ELSE trav

\* A tool invocation starts: `c = await get_client()` runs without
\* suspending unless it constructs the client and tests the connection.
Invoke(t, tool, a) ==
  /\ pc[t] = "idle"
  /\ inv' = [inv EXCEPT ![t] = [tool |-> tool, args |-> a]]
  /\ LET g == get_client
     IN IF g.outcome = "raise"
        THEN \* ValueError, caught by the handler's `except Exception`
             /\ pc' = [pc EXCEPT ![t] = "done"]
             /\ result' = [result EXCEPT ![t] = Error(ConfigMsg)]
             /\ UNCHANGED <<client, constructed, handle, calls, trav, startup>>
        ELSE /\ client' = g.handle
             /\ constructed' = IF g.constructs THEN constructed + 1
                               ELSE constructed
             /\ IF g.awaits
                THEN /\ pc' = [pc EXCEPT ![t] = "get_client"]
                     /\ calls' = [calls EXCEPT
                                    ![t] = Append(@, [op |-> "test_connection"])]
                     /\ startup' = "pending"
                     /\ UNCHANGED <<handle, result, trav>>
                ELSE /\ Body(t, tool, a, g.handle)
                     /\ startup' = startup
  /\ UNCHANGED <<env, response>>

\* client.test_connection() inside get_client completes and its failure
\* leaves get_client: the handler's `except Exception` returns its text.
TestConnectionDone_raises(t, ok) ==
  /\ pc[t] = "get_client"
  /\ startup' = IF ok THEN "ok" ELSE "failed"
  /\ IF ok
     THEN Body(t, inv[t].tool, inv[t].args, client)
     ELSE /\ pc' = [pc EXCEPT ![t] = "done"]
          /\ result' = [result EXCEPT ![t] = Error(RemoteMsg)]
          /\ UNCHANGED <<handle, calls, trav>>
  /\ UNCHANGED <<env, client, constructed, inv, response>>

\* client.test_connection() inside get_client completes; a failure is
\* logged and swallowed, and get_client returns the global handle.
\* startup keeps how the process's startup test went.
TestConnectionDone(t, ok) ==
  /\ pc[t] = "get_client"
  /\ startup' = IF ok THEN "ok" ELSE "failed"
  /\ Body(t, inv[t].tool, inv[t].args, client)
  /\ UNCHANGED <<env, client, constructed, inv, response>>

\* The awaited client operation, failing, is awaited again.
Finish_retry(t, resp) ==
  IF Has(resp, "raise") /\ Len(calls[t]) < 3
  THEN /\ calls' = [calls EXCEPT ![t] = Append(@, calls[t][Len(calls[t])])]
       /\ UNCHANGED <<env, client, constructed, pc, inv, handle, result,
                      response, startup>>
  ELSE /\ pc' = [pc EXCEPT ![t] = "done"]
       /\ result' = [result EXCEPT
                       ![t] = AfterOp(inv[t].tool, inv[t].args, resp)]
       /\ response' = [response EXCEPT ![t] = resp]
       /\ UNCHANGED <<env, client, constructed, inv, handle, calls, startup>>

\* The awaited client operation returns or raises, and the handler runs
\* to its return; response[t] keeps what the operation gave back.
Finish(t, resp) ==
  /\ pc' = [pc EXCEPT ![t] = "done"]
  /\ result' = [result EXCEPT ![t] = AfterOp(inv[t].tool, inv[t].args, resp)]
  /\ response' = [response EXCEPT ![t] = resp]
  /\ UNCHANGED <<env, client, constructed, inv, handle, calls, startup>>

OpDone(t, resp) ==
  /\ pc[t] = "call"
  /\ ~trav[t].active
  /\ Finish(t, resp)
  /\ UNCHANGED trav

\* One request of the children traversal completes: it raises, and the
\* client operation raises with it, or it reports the children of the id.
FetchChildren(t, answer) ==
  /\ pc[t] = "call"
  /\ trav[t].active
  /\ trav[t].pending # <<>>
  /\ Len(trav[t].fetched) < MaxFetches
  /\ IF Has(answer, "raise")
     THEN /\ Finish(t, answer)
          /\ trav' = [trav EXCEPT ![t].pending = <<>>]
     ELSE /\ EdgesSeen(trav[t].fetched) + Cardinality(answer["ret"]) <= MaxEdges
          /\ trav' = [trav EXCEPT ![t] = TraversalStep(@, answer["ret"])]
          /\ UNCHANGED <<env, client, constructed, pc, inv, handle, calls,
                         result, response, startup>>

\* The worklist is empty: the client operation returns the flat result.
ChildrenDone(t) ==
  /\ pc[t] = "call"
  /\ trav[t].active
  /\ trav[t].pending = <<>>
  /\ Finish(t, Returns(TraversalEnvelope(trav[t])))
  /\ UNCHANGED trav

\* The text goes back to the caller and the task is free again.
Return(t) ==
  /\ pc[t] = "done"
  /\ pc' = [pc EXCEPT ![t] = "idle"]
  /\ inv' = [inv EXCEPT ![t] = NoInv]
  /\ handle' = [handle EXCEPT ![t] = None]
  /\ calls' = [calls EXCEPT ![t] = <<>>]
  /\ result' = [result EXCEPT ![t] = None]
  /\ trav' = [trav EXCEPT ![t] = NoTrav]
  /\ response' = [response EXCEPT ![t] = None]
  /\ UNCHANGED <<env, client, constructed, startup>>

(***************************************************************************)
(* Argument domains.                                                       *)
(***************************************************************************)
Ids == { I(n) : n \in 0..MaxId }
OptId == {None} \cup Ids

NoArgs == [none |-> None]

Args_list_projects == [active_only : {B(TRUE), B(FALSE)}]
Args_list_users == [active_only : {B(TRUE), B(FALSE)}]
Args_list_work_packages ==
  [project_id : OptId,
   status : {S("open"), S("closed"), S("all"), S("Open"), S("")},
   offset : {None, I(0)},
   page_size : {None, I(1), I(100), I(101), I(500)}]
Args_list_time_entries == [work_package_id : OptId, user_id : OptId]
Args_list_work_package_relations ==
  [work_package_id : OptId,
   relation_type : {None, S(""), S("blocks"), S("follows")}]
Args_create_work_package_relation ==
  [from_id : Ids, to_id : Ids, relation_type : {S("blocks"), S("follows")},
   lag : {None, I(0), I(1)}, description : {None, S(""), S("d")}]
Args_create_membership ==
  [project_id : {I(1)}, user_id : OptId, group_id : OptId,
   role_ids : {None, L(<<>>), L(<<I(1)>>)}, role_id : {None, I(0), I(1)}]

\* An optional argument: absent, given and falsy, given and truthy.
OptStr == {None, S(""), S("x")}
OptInt == {None, I(0), I(1)}
OptBool == {None, B(FALSE), B(TRUE)}

Args_update_work_package ==
  [work_package_id : {I(1)}, subject : OptStr, description : OptStr,
   type_id : OptInt, status_id : OptInt, priority_id : OptInt,
   assignee_id : OptInt, percentage_done : OptInt]
Args_update_project ==
  [project_id : {I(1)}, name : OptStr, identifier : OptStr, description : OptStr,
   public : OptBool, status : OptStr, parent_id : OptInt]
Args_update_membership ==
  [membership_id : {I(1)}, role_ids : {None, L(<<>>), L(<<I(1)>>)},
   role_id : OptInt]
Args_update_time_entry ==
  [time_entry_id : {I(1)}, hours : OptInt, spent_on : OptStr, comment : OptStr,
   activity_id : OptInt]
Args_list_work_package_children ==
  [parent_id : { I(n) : n \in Nodes }, include_descendants : {B(FALSE), B(TRUE)}]
Args_update_work_package_relation ==
  [relation_id : {I(1)}, relation_type : OptStr, lag : OptInt,
   description : OptStr]

(***************************************************************************)
(* Responses of the remote service, as the client hands them back.         *)
(***************************************************************************)
Failures == { Raise(m) : m \in {RemoteMsg, "timed out"} }

\* A resource with all its fields, and the same lacking optional fields or
\* its id.
FullItem ==
  ("id" :> I(1)) @@ ("name" :> S("n")) @@ ("subject" :> S("s"))
    @@ ("_embedded" :> (("status" :> ("name" :> S("New")))
                          @@ ("type" :> ("name" :> S("Task")))))
NoStatusItem ==
  ("id" :> I(1)) @@ ("name" :> S("n")) @@ ("subject" :> S("s"))
    @@ ("_embedded" :> ("type" :> ("name" :> S("Task"))))
BareItem == ("id" :> I(2)) @@ ("name" :> S("n")) @@ ("subject" :> S("s"))
NoIdItem == ("name" :> S("n")) @@ ("subject" :> S("s"))
Items == {FullItem, NoStatusItem, BareItem, NoIdItem}

ItemLists ==
  {<<>>} \cup { <<i>> : i \in Items } \cup {<<FullItem, BareItem>>}

\* Collection envelopes: with or without _embedded, elements and total.
Envelopes ==
  LET bodies == {EmptyDict, "_embedded" :> EmptyDict}
                  \cup { "_embedded" :> ("elements" :> l) : l \in ItemLists }
  IN bodies \cup { b @@ ("total" :> I(7)) : b \in bodies }

ListTools ==
  {"list_projects", "list_work_packages", "list_users", "list_time_entries",
   "list_work_package_relations", "list_types", "list_statuses",
   "list_priorities", "list_memberships", "list_roles",
   "list_time_entry_activities", "list_versions",
   "list_work_package_children"}

Responses(tool) ==
  Failures \cup
    { Returns(v) : v \in IF tool \in ListTools THEN Envelopes
                         ELSE IF tool = "test_connection"
                         THEN {EmptyDict, "instanceName" :> S("op"),
                               ("instanceName" :> S("op"))
                                 @@ ("coreVersion" :> S("14"))}
                         ELSE Items }

\* What one request of the children traversal gives back: a failure, or the
\* ids whose parent is the id asked for.
ChildAnswers == Failures \cup { Returns(c) : c \in SUBSET Nodes }

\* The responses the concurrent callers see: one failure, one success.
ConcResponses(tool) ==
  { Raise(RemoteMsg),
    Returns(IF tool \in ListTools
            THEN ("_embedded" :> ("elements" :> <<FullItem>>)) @@ ("total" :> I(7))
            ELSE FullItem) }

\* The arguments of the concurrent callers: a few of each tool's.
Conc_list_work_packages ==
  { a \in Args_list_work_packages :
      /\ a.offset = None
      /\ <<a.project_id, a.status, a.page_size>> \in
           { <<None, S("all"), None>>, <<I(1), S("open"), I(500)>> } }
Conc_create_work_package_relation ==
  { a \in Args_create_work_package_relation :
      /\ a.from_id = I(1) /\ a.to_id \in {I(1), I(2)}
      /\ a.relation_type = S("blocks") /\ a.lag = None
      /\ a.description = None }
Conc_create_membership ==
  { a \in Args_create_membership :
      /\ a.user_id \in {None, I(1)} /\ a.group_id \in {None, I(2)}
      /\ a.role_ids = None /\ a.role_id = None }
Conc_list_time_entries ==
  { a \in Args_list_time_entries : a.work_package_id = None /\ a.user_id = None }
Conc_list_work_package_relations ==
  { a \in Args_list_work_package_relations :
      a.work_package_id = None /\ a.relation_type = None }

(***************************************************************************)
(* The server with NumTasks concurrent tool invocations.                   *)
(***************************************************************************)
Next ==
  \E t \in Tasks :
    \/ Invoke(t, "test_connection", NoArgs)
    \/ \E a \in {[active_only |-> B(TRUE)]} : Invoke(t, "list_projects", a)
    \/ \E a \in {[active_only |-> B(FALSE)]} : Invoke(t, "list_users", a)
    \/ \E a \in Conc_list_work_packages : Invoke(t, "list_work_packages", a)
    \/ \E a \in Conc_list_time_entries : Invoke(t, "list_time_entries", a)
    \/ \E a \in Conc_list_work_package_relations :
         Invoke(t, "list_work_package_relations", a)
    \/ \E a \in Conc_create_work_package_relation :
         Invoke(t, "create_work_package_relation", a)
    \/ \E a \in Conc_create_membership : Invoke(t, "create_membership", a)
    \/ \E ok \in BOOLEAN : TestConnectionDone(t, ok)
    \/ \E resp \in ConcResponses(inv[t].tool) : OpDone(t, resp)
    \/ Return(t)

Spec == Init /\ [][Next]_vars

(***************************************************************************)
(* One caller at a time, over the full argument domains: what each handler *)
(* hands to the client as a function of its arguments.                     *)
(***************************************************************************)
NextArgs ==
  \/ Invoke(1, "test_connection", NoArgs)
  \/ \E a \in Args_list_projects : Invoke(1, "list_projects", a)
  \/ \E a \in Args_list_users : Invoke(1, "list_users", a)
  \/ \E a \in Args_list_work_packages : Invoke(1, "list_work_packages", a)
  \/ \E a \in Args_list_time_entries : Invoke(1, "list_time_entries", a)
  \/ \E a \in Args_list_work_package_relations :
       Invoke(1, "list_work_package_relations", a)
  \/ \E a \in Args_create_work_package_relation :
       Invoke(1, "create_work_package_relation", a)
  \/ \E a \in Args_create_membership : Invoke(1, "create_membership", a)
  \/ \E a \in Args_update_membership : Invoke(1, "update_membership", a)
  \/ \E ok \in BOOLEAN : TestConnectionDone(1, ok)
  \/ \E resp \in Responses(inv[1].tool) : OpDone(1, resp)
  \/ Return(1)

SpecArgs == Init /\ [][NextArgs]_vars

(***************************************************************************)
(* The update handlers over every combination of their optional arguments. *)
(***************************************************************************)
NextUpdate ==
  \/ \E a \in Args_update_work_package : Invoke(1, "update_work_package", a)
  \/ \E a \in Args_update_project : Invoke(1, "update_project", a)
  \/ \E a \in Args_update_time_entry : Invoke(1, "update_time_entry", a)
  \/ \E a \in Args_update_work_package_relation :
       Invoke(1, "update_work_package_relation", a)
  \/ \E ok \in BOOLEAN : TestConnectionDone(1, ok)
  \/ \E resp \in ConcResponses(inv[1].tool) : OpDone(1, resp)
  \/ Return(1)

\* A process started with both OPENPROJECT_URL and OPENPROJECT_API_KEY set.
InitConfigured ==
  /\ Init
  /\ Truthy(env.OPENPROJECT_URL)
  /\ Truthy(env.OPENPROJECT_API_KEY)

SpecUpdate == InitConfigured /\ [][NextUpdate]_vars

(***************************************************************************)
(* Every tool, one caller, a few arguments of each, and every response of  *)
(* the service.                                                            *)
(***************************************************************************)
\* The arguments of A with at most n of them given.
Sparse(A, n) ==
  { a \in A : Cardinality({ k \in DOMAIN a : a[k] # None }) <= n }

NextTools ==
  \/ Invoke(1, "test_connection", NoArgs)
  \/ \E a \in Args_list_projects : Invoke(1, "list_projects", a)
  \/ \E a \in Args_list_users : Invoke(1, "list_users", a)
  \/ \E a \in Conc_list_work_packages : Invoke(1, "list_work_packages", a)
  \/ \E a \in Conc_list_time_entries : Invoke(1, "list_time_entries", a)
  \/ \E a \in Conc_list_work_package_relations :
       Invoke(1, "list_work_package_relations", a)
  \/ \E a \in Conc_create_work_package_relation :
       Invoke(1, "create_work_package_relation", a)
  \/ \E a \in Conc_create_membership : Invoke(1, "create_membership", a)
  \/ \E a \in [project_id : Ids] : Invoke(1, "get_project", a)
  \/ \E a \in Sparse([name : {S("n")}, identifier : {S("n")},
                       public : {B(FALSE), B(TRUE)}, description : OptStr,
                       status : OptStr, parent_id : OptInt], 4) :
       Invoke(1, "create_project", a)
  \/ \E a \in [work_package_id : Ids] : Invoke(1, "get_work_package", a)
  \/ \E a \in Sparse([project_id : {I(1)}, subject : {S("s")},
                       type_id : {I(1)}, description : OptStr,
                       priority_id : OptInt, assignee_id : OptInt], 4) :
       Invoke(1, "create_work_package", a)
  \/ \E a \in Sparse(Args_update_work_package, 2) : Invoke(1, "update_work_package", a)
  \/ \E a \in [work_package_id : Ids] : Invoke(1, "delete_work_package", a)
  \/ \E a \in [project_id : OptId] : Invoke(1, "list_types", a)
  \/ \E a \in [user_id : Ids] : Invoke(1, "get_user", a)
  \/ Invoke(1, "list_statuses", NoArgs)
  \/ Invoke(1, "list_priorities", NoArgs)
  \/ \E a \in Sparse(Args_update_project, 2) : Invoke(1, "update_project", a)
  \/ \E a \in [project_id : Ids] : Invoke(1, "delete_project", a)
  \/ \E a \in [project_id : OptId, user_id : OptId] : Invoke(1, "list_memberships", a)
  \/ \E a \in Sparse(Args_update_membership, 2) :
       Invoke(1, "update_membership", a)
  \/ \E a \in [membership_id : Ids] : Invoke(1, "delete_membership", a)
  \/ \E a \in [membership_id : Ids] : Invoke(1, "get_membership", a)
  \/ Invoke(1, "list_roles", NoArgs)
  \/ \E a \in [role_id : Ids] : Invoke(1, "get_role", a)
  \/ Invoke(1, "list_time_entry_activities", NoArgs)
  \/ \E a \in Sparse([work_package_id : {I(1)}, hours : {I(2)},
                       spent_on : {S("2024-01-01")}, comment : OptStr,
                       activity_id : OptInt], 4) :
       Invoke(1, "create_time_entry", a)
  \/ \E a \in Sparse(Args_update_time_entry, 2) : Invoke(1, "update_time_entry", a)
  \/ \E a \in [time_entry_id : Ids] : Invoke(1, "delete_time_entry", a)
  \/ \E a \in [project_id : OptId] : Invoke(1, "list_versions", a)
  \/ \E a \in Sparse([project_id : {I(1)}, name : {S("n")},
                       description : OptStr, start_date : OptStr,
                       end_date : OptStr, status : OptStr], 3) :
       Invoke(1, "create_version", a)
  \/ \E a \in [work_package_id : Ids, parent_id : Ids] :
       Invoke(1, "set_work_package_parent", a)
  \/ \E a \in [work_package_id : Ids] :
       Invoke(1, "remove_work_package_parent", a)
  \/ \E a \in { b \in Args_list_work_package_children : b.parent_id = I(1) } :
       Invoke(1, "list_work_package_children", a)
  \/ \E a \in Sparse(Args_update_work_package_relation, 2) :
       Invoke(1, "update_work_package_relation", a)
  \/ \E a \in [relation_id : Ids] :
       Invoke(1, "delete_work_package_relation", a)
  \/ \E a \in [relation_id : Ids] :
       Invoke(1, "get_work_package_relation", a)
  \/ Invoke(1, "check_permissions", NoArgs)
  \/ \E ok \in BOOLEAN : TestConnectionDone(1, ok)
  \/ \E resp \in Responses(inv[1].tool) : OpDone(1, resp)
  \/ \E answer \in ChildAnswers : FetchChildren(1, answer)
  \/ ChildrenDone(1)
  \/ Return(1)

SpecTools == Init /\ [][NextTools]_vars

(***************************************************************************)
(* list_work_package_children alone, over every parent and every answer of *)
(* the service.  The event loop resumes the handler when a request         *)
(* completes, and every request completes or fails (timeout).              *)
(***************************************************************************)
NextChildren ==
  \/ \E a \in Args_list_work_package_children :
       Invoke(1, "list_work_package_children", a)
  \/ \E ok \in BOOLEAN : TestConnectionDone(1, ok)
  \/ \E answer \in ChildAnswers : FetchChildren(1, answer)
  \/ ChildrenDone(1)
  \/ Return(1)

SpecChildren ==
  /\ Init
  /\ [][NextChildren]_vars
  /\ WF_vars(\E ok \in BOOLEAN : TestConnectionDone(1, ok))
  /\ WF_vars(\E answer \in ChildAnswers : FetchChildren(1, answer))
  /\ WF_vars(ChildrenDone(1))

(***************************************************************************)
(* json.loads on the filter strings: the inverse of json_dumps over the    *)
(* filter lists of up to two predicates.                                   *)
(***************************************************************************)
IdFields == {"work_package_id", "user_id", "involved", "project"}

PredUniverse ==
  { Pred("status", op, <<>>) : op \in {"o", "c"} }
    \cup { Pred("active", "=", <<v>>) : v \in {S("t"), B(TRUE)} }
    \cup { Pred("status", "=", <<v>>) : v \in {S("active")} }
    \cup { Pred("type", "=", <<v>>) : v \in {S("blocks"), S("follows")} }
    \cup { Pred(f, "=", <<v>>) : f \in IdFields, v \in Ids \cup {Str(i) : i \in Ids} }

FilterLists ==
  {<<>>} \cup { <<p>> : p \in PredUniverse }
         \cup { <<p, q>> : p \in PredUniverse, q \in PredUniverse }

DumpsTable == [l \in FilterLists |-> json_dumps(l).str]

Malformed == <<Pred("malformed", "malformed", <<>>)>>

json_loads(s) ==
  IF \E l \in FilterLists : DumpsTable[l] = s
  THEN CHOOSE l \in FilterLists : DumpsTable[l] = s
  ELSE Malformed

(***************************************************************************)
(* OpenProjectClient.get_work_packages: the request it issues for the      *)
(* arguments list_work_packages hands it (filter composition of 4.1, page  *)
(* size cap of 4.3, query parameters of 6).                                *)
(***************************************************************************)
ServiceMaxPageSize == 100

ClientGetWorkPackages(call) ==
  LET given == IF call.filters = None THEN <<>>
               ELSE json_loads(call.filters.str)
      preds == IF call.project_id # None
               THEN given \o <<Pred("project", "=", <<Str(call.project_id)>>)>>
               ELSE given
  IN [filters  |-> IF Len(preds) = 0 THEN None ELSE json_dumps(preds),
      offset   |-> call.offset,
      pageSize |-> IF call.page_size = None THEN None
                   ELSE IF call.page_size.int > ServiceMaxPageSize
                   THEN I(ServiceMaxPageSize) ELSE call.page_size]

(***************************************************************************)
(* Properties.                                                             *)
(***************************************************************************)
\* The client operations task t's invocation has called so far.
OpCalls(t, op) == { calls[t][i] : i \in { j \in DOMAIN calls[t] : calls[t][j].op = op } }

\* Task t's handler has called its client operation op.
Called(t, tool, op) == inv[t].tool = tool /\ OpCalls(t, op) # {}

ConfigMissing ==
  ~Truthy(env["OPENPROJECT_URL"]) \/ ~Truthy(env["OPENPROJECT_API_KEY"])

\* C1: the global handle is set only if OPENPROJECT_URL and
\* OPENPROJECT_API_KEY were both non-empty when get_client constructed it;
\* when either is missing every invocation ends with the configuration
\* error, the handle stays unset, nothing is constructed and no client call
\* (hence no network call) is made.
C1_ConfigGuard ==
  /\ client # None => Truthy(client.base_url) /\ Truthy(client.api_key)
  /\ ConfigMissing =>
       /\ client = None
       /\ constructed = 0
       /\ \A t \in Tasks :
            /\ calls[t] = <<>>
            /\ handle[t] = None
            /\ pc[t] \in {"idle", "done"}
            /\ pc[t] = "done" => result[t] = Error(ConfigMsg)

C1_Witness ==
  /\ ConfigMissing
  /\ \E t \in Tasks : pc[t] = "done" /\ result[t] = Error(ConfigMsg)

\* C2: with tasks interleaved at their await points, OpenProjectClient is
\* constructed at most once, every get_client call that returned yielded
\* that one object, and the global handle is never reset or replaced.
C2_Singleton ==
  /\ constructed <= 1
  /\ constructed = 0 => client = None
  /\ constructed = 1 => client # None /\ client.id = 1
  /\ \A t \in Tasks : handle[t] # None => handle[t] = client

C2_Witness ==
  \E t1, t2 \in Tasks :
    /\ t1 # t2
    /\ pc[t1] = "get_client"
    /\ pc[t2] = "call" /\ handle[t2] = client /\ client # None

\* C3: list_work_packages with status "all", and list_time_entries and
\* list_work_package_relations with no filter argument, hand filters = None
\* to the client; none of the three ever hands it the text "[]".
C3_FilterOmitted ==
  \A t \in Tasks :
    /\ \A c \in OpCalls(t, "get_work_packages") :
         /\ c.filters # S("[]")
         /\ inv[t].args.status = S("all") => c.filters = None
    /\ \A c \in OpCalls(t, "get_time_entries") :
         /\ c.filters # S("[]")
         /\ (inv[t].args.work_package_id = None /\ inv[t].args.user_id = None)
              => c.filters = None
    /\ \A c \in OpCalls(t, "list_work_package_relations") :
         /\ c.filters # S("[]")
         /\ (inv[t].args.work_package_id = None
               /\ inv[t].args.relation_type = None) => c.filters = None
    /\ (pc[t] = "call" /\ inv[t].tool = "list_work_packages")
         => OpCalls(t, "get_work_packages") # {}

C3_Witness ==
  \E t \in Tasks :
    /\ Called(t, "list_work_packages", "get_work_packages")
    /\ inv[t].args.status = S("all")
    /\ \A c \in OpCalls(t, "get_work_packages") : c.filters = None

\* The handler body of task t has run (get_client returned a handle to it).
BodyRan(t) == handle[t] # None

StatusOp(status) == IF status = S("open") THEN "o" ELSE "c"

\* C4: list_work_packages with status "open" hands the client exactly the
\* one-element array [{"status": {"operator": "o", "values": []}}] as its
\* filters argument, and with "closed" the same with operator "c", whatever
\* project_id, offset and page_size are.
C4_StatusFilterShape ==
  \A t \in Tasks :
    (/\ inv[t].tool = "list_work_packages"
     /\ inv[t].args.status \in {S("open"), S("closed")}
     /\ BodyRan(t))
    => /\ Cardinality(OpCalls(t, "get_work_packages")) = 1
       /\ \A c \in OpCalls(t, "get_work_packages") :
            /\ c.filters =
                 IF inv[t].args.status = S("open")
                 THEN S("[{\"status\": {\"operator\": \"o\", \"values\": []}}]")
                 ELSE S("[{\"status\": {\"operator\": \"c\", \"values\": []}}]")
            /\ json_loads(c.filters.str)
                 = <<Pred("status", StatusOp(inv[t].args.status), <<>>)>>

C4_Witness ==
  \E t \in Tasks :
    /\ Called(t, "list_work_packages", "get_work_packages")
    /\ inv[t].args.status = S("closed")
    /\ inv[t].args.project_id # None
    /\ inv[t].args.page_size # None

EqValuesAreStrings(filters) ==
  LET l == json_loads(filters.str)
  IN /\ l # Malformed
     /\ \A i \in DOMAIN l :
          l[i].operator = "=" =>
            /\ Len(l[i].values) > 0
            /\ \A j \in DOMAIN l[i].values : l[i].values[j].tag = "str"

\* C6: every value in the values list of an "=" predicate built by
\* list_projects, list_users, list_time_entries and
\* list_work_package_relations is a string; an integer id appears as its
\* decimal text.
C6_ValuesStringified ==
  \A t \in Tasks :
    /\ \A c \in OpCalls(t, "get_projects") \cup OpCalls(t, "get_users")
                 \cup OpCalls(t, "get_time_entries")
                 \cup OpCalls(t, "list_work_package_relations") :
         c.filters # None => EqValuesAreStrings(c.filters)
    /\ \A c \in OpCalls(t, "get_time_entries") :
         Truthy(inv[t].args.work_package_id) =>
           /\ c.filters # None
           /\ json_loads(c.filters.str)[1] =
                Pred("work_package_id", "=",
                     <<S(ToString(inv[t].args.work_package_id.int))>>)
    /\ \A c \in OpCalls(t, "get_projects") :
         inv[t].args.active_only = B(TRUE) =>
           /\ c.filters # None
           /\ json_loads(c.filters.str) = <<Pred("active", "=", <<S("t")>>)>>

C6_Witness ==
  \E t \in Tasks :
    /\ Called(t, "list_time_entries", "get_time_entries")
    /\ inv[t].args.work_package_id = I(1)
    /\ inv[t].args.user_id = I(2)
    /\ \A c \in OpCalls(t, "get_time_entries") :
         json_loads(c.filters.str) =
           << Pred("work_package_id", "=", <<S("1")>>),
              Pred("user_id", "=", <<S("2")>>) >>

C8_SelfEdgeRejected ==
  \A t \in Tasks :
    (/\ inv[t].tool = "create_work_package_relation"
     /\ inv[t].args.from_id = inv[t].args.to_id)
    => OpCalls(t, "create_work_package_relation") = {}

\* C9: create_membership with neither user_id nor group_id issues no
\* request during that invocation, in any state of the process.
C9_MembershipNoRequest ==
  \A t \in Tasks :
    (/\ inv[t].tool = "create_membership"
     /\ ~Truthy(inv[t].args.user_id)
     /\ ~Truthy(inv[t].args.group_id))
    => calls[t] = <<>>

\* C10: every payload create_membership hands to the client has exactly
\* one of the keys user_id and group_id, and when the caller supplies both
\* arguments it is user_id.
C10_ExactlyOnePrincipal ==
  \A t \in Tasks :
    \A c \in OpCalls(t, "create_membership") :
      /\ ("user_id" \in Keys(c.data)) # ("group_id" \in Keys(c.data))
      /\ (inv[t].args.user_id # None /\ inv[t].args.group_id # None)
           => ("user_id" \in Keys(c.data) /\ "group_id" \notin Keys(c.data))

(***************************************************************************)
(* Update payloads.                                                        *)
(***************************************************************************)
UpdateTools ==
  {"update_work_package", "update_project", "update_time_entry",
   "update_work_package_relation"}

\* The required id argument of an update tool.
IdArg(tool) ==
  CASE tool = "update_work_package"          -> "work_package_id"
    [] tool = "update_project"               -> "project_id"
    [] tool = "update_time_entry"            -> "time_entry_id"
    [] tool = "update_work_package_relation" -> "relation_id"

\* The optional arguments the caller supplied.
Supplied(tool, a) == { k \in DOMAIN a : k # IdArg(tool) /\ a[k] # None }

\* How many times task t has called the client operation op.
NumCalls(t, op) == Cardinality({ j \in DOMAIN calls[t] : calls[t][j].op = op })

\* C11: once the body of update_work_package, update_project,
\* update_time_entry or update_work_package_relation has run, the client
\* update was called exactly once, for the id given, and the keys of its
\* change payload are exactly the optional arguments supplied (zero, false
\* and "" included), each with the value supplied; with none supplied the
\* payload is the empty dict.
C11_UpdatePayload ==
  \A t \in Tasks :
    (inv[t].tool \in UpdateTools /\ BodyRan(t)) =>
      LET a == inv[t].args
          tool == inv[t].tool
      IN /\ NumCalls(t, tool) = 1
         /\ \A c \in OpCalls(t, tool) :
              /\ c.id = a[IdArg(tool)]
              /\ Keys(c.data) = Supplied(tool, a)
              /\ \A k \in Supplied(tool, a) : c.data[k] = a[k]
              /\ (Supplied(tool, a) = {}) => c.data = EmptyDict

\* update_work_package was given subject "" and percentage_done 0 only, and
\* its update call carries exactly these two keys.
C11_Witness ==
  /\ inv[1].tool = "update_work_package"
  /\ pc[1] = "call"
  /\ Supplied("update_work_package", inv[1].args) = {"subject", "percentage_done"}
  /\ inv[1].args.subject = S("")
  /\ inv[1].args.percentage_done = I(0)
  /\ \E c \in OpCalls(1, "update_work_package") :
       Keys(c.data) = {"subject", "percentage_done"}

(***************************************************************************)
(* Hierarchy traversal.                                                    *)
(***************************************************************************)
\* The ids whose children the traversal has asked for, and the children the
\* service reported for x.
FetchedIds(fetched) == { fetched[i][1] : i \in DOMAIN fetched }
ReportedChildren(fetched, x) ==
  UNION { fetched[i][2] : i \in { j \in DOMAIN fetched : fetched[j][1] = x } }

\* The least set containing ids and closed under the reported children.
RECURSIVE Closure(_, _)
Closure(fetched, ids) ==
  LET more == ids \cup UNION { ReportedChildren(fetched, x) : x \in ids }
  IN IF more = ids THEN ids ELSE Closure(fetched, more)

Descendants(fetched, root) == Closure(fetched, ReportedChildren(fetched, root))

\* The ids list_work_package_children printed, in order.
ListedIds(t) ==
  IF result[t].kind = "list"
  THEN [i \in DOMAIN result[t].rows |-> result[t].rows[i][1].int]
  ELSE <<>>

ChildrenReturned(t) ==
  /\ inv[t].tool = "list_work_package_children"
  /\ pc[t] = "done"
  /\ result[t].kind \in {"list", "empty"}

\* C12: when list_work_package_children returns a listing, the ids listed
\* are, with include_descendants false, exactly the children reported for
\* the parent by one request; with include_descendants true, exactly the
\* transitive descendants of the parent under the reported children, every
\* listed id having been expanded itself; and no id is listed twice.
C12_ChildrenAndDescendants ==
  \A t \in Tasks :
    ChildrenReturned(t) =>
      LET parent == inv[t].args.parent_id.int
          fetched == trav[t].fetched
          ids == ListedIds(t)
      IN /\ Cardinality(Range(ids)) = Len(ids)
         /\ IF Truthy(inv[t].args.include_descendants)
            THEN /\ Range(ids) = Descendants(fetched, parent) \ {parent}
                 /\ Range(ids) \subseteq FetchedIds(fetched)
            ELSE /\ Len(fetched) = 1
                 /\ Range(ids) = ReportedChildren(fetched, parent)

\* The tree 1 -> {2, 3}, 2 -> {4} was reported and the descendants of 1
\* were listed: 2, 3 and 4.
C12_Witness ==
  /\ ChildrenReturned(1)
  /\ inv[1].args = [parent_id |-> I(1), include_descendants |-> B(TRUE)]
  /\ Range(trav[1].fetched) = {<<1, {2, 3}>>, <<2, {4}>>, <<3, {}>>, <<4, {}>>}
  /\ Range(ListedIds(1)) = {2, 3, 4}

\* C13: a descendant traversal never asks for the children of the same id
\* twice, and, every request completing or failing, a traversal that has
\* started returns or fails, whatever children the service reports (cycles
\* included).
C13_TraversalTerminates ==
  /\ [](\A t \in Tasks :
          trav[t].active =>
            Cardinality(FetchedIds(trav[t].fetched)) = Len(trav[t].fetched))
  /\ \A t \in Tasks : (trav[t].active /\ pc[t] = "call") ~> (pc[t] = "done")

\* The service reported a cycle, 1 -> {2} and 2 -> {1}; the traversal from 1
\* returned with 2 listed and 1 asked for once.
C13_Witness ==
  /\ ChildrenReturned(1)
  /\ inv[1].args = [parent_id |-> I(1), include_descendants |-> B(TRUE)]
  /\ trav[1].fetched = << <<1, {2}>>, <<2, {1}>> >>
  /\ ListedIds(1) = <<2>>

(***************************************************************************)
(* Failures and retries.                                                   *)
(***************************************************************************)
\* C14: whenever the client operation of a tool raised, a request of the
\* children traversal included, the invocation has ended with the error
\* outcome carrying the exception's message: not a success, not a listing,
\* not the "No ... found" text.
C14_FailurePropagates ==
  \A t \in Tasks :
    Has(response[t], "raise") =>
      /\ pc[t] = "done"
      /\ result[t] = Error(response[t]["raise"])
      /\ result[t].kind \notin {"ok", "list", "empty"}

\* The children traversal failed on its second request, after the parent's
\* children had been fetched, and the invocation ended with that failure.
C14_Witness ==
  /\ inv[1].tool = "list_work_package_children"
  /\ trav[1].active
  /\ Len(trav[1].fetched) = 1
  /\ trav[1].acc # <<>>
  /\ response[1] = Raise("timed out")
  /\ result[1] = Error("timed out")

\* C17: the calls of an invocation grow by one call at a time and only on
\* the way into an await, from "idle" or from get_client: once the handler
\* waits for its client operation, or has its outcome, failure included, the
\* invocation makes no further call, so the operation is called at most
\* once and a listing is one window.
C17_AtMostOneCall ==
  [][\A t \in Tasks :
       calls'[t] # calls[t] =>
         \/ pc[t] = "done" /\ calls'[t] = <<>>
         \/ /\ pc[t] \in {"idle", "get_client"}
            /\ pc'[t] \in {"get_client", "call"}
            /\ Len(calls'[t]) = Len(calls[t]) + 1
            /\ pc'[t] = "call" => NumCalls(t, calls'[t][Len(calls'[t])].op)
                                    <= IF pc[t] = "get_client" THEN 1 ELSE 0]_vars

\* list_projects failed and its invocation ended having called get_projects
\* once.
C17_Witness ==
  /\ inv[1].tool = "list_projects"
  /\ pc[1] = "done"
  /\ Has(response[1], "raise")
  /\ NumCalls(1, "get_projects") = 1
  /\ Len(calls[1]) = 1

(***************************************************************************)
(* Reading responses.                                                      *)
(***************************************************************************)
\* Task t's client operation returned the object r and the handler has
\* returned.
Returned(t) == pc[t] = "done" /\ Has(response[t], "ret")

HasStatus(wp) == Has(wp, "_embedded") /\ Has(wp["_embedded"], "status")

\* The work item has the fields the handlers read with wp[...].
HasRequired(wp) == Has(wp, "id") /\ Has(wp, "subject") /\ Has(wp, "name")

\* C15: in every list tool a returned collection without _embedded, or
\* without _embedded.elements, gives the "No ... found" outcome of the empty
\* sequence; in list_work_packages a listing of work items shows "Unknown"
\* for each item without _embedded.status and does not fail on it, and so
\* does get_work_package.
C15_MissingHypermedia ==
  \A t \in Tasks :
    Returned(t) =>
      LET r == response[t]["ret"]
          tool == inv[t].tool
      IN /\ (tool \in ListTools
               /\ (~Has(r, "_embedded") \/ ~Has(r["_embedded"], "elements")))
              => result[t].kind = "empty"
         /\ (tool = "list_work_packages" /\ Elements(r) # <<>>
               /\ \A i \in DOMAIN Elements(r) : HasRequired(Elements(r)[i]))
              => /\ result[t].kind = "list"
                 /\ \A i \in DOMAIN Elements(r) :
                      ~HasStatus(Elements(r)[i])
                        => result[t].rows[i].status_name = S("Unknown")
         /\ (tool = "get_work_package" /\ HasRequired(r) /\ ~HasStatus(r))
              => /\ result[t].kind = "ok"
                 /\ result[t].shown["status"] = S("Unknown")

\* list_work_packages listed two work items, the second without _embedded,
\* and showed "Unknown" as its status.
C15_Witness ==
  /\ inv[1].tool = "list_work_packages"
  /\ Returned(1)
  /\ Elements(response[1]["ret"]) = <<FullItem, BareItem>>
  /\ result[1].kind = "list"
  /\ result[1].rows[2].status_name = S("Unknown")

TotalTools == {"list_work_packages", "list_time_entry_activities"}

\* C16: in list_work_packages and list_time_entry_activities a returned
\* collection with a non-empty elements list of well-formed items and no
\* `total` is listed with total = the number of elements, without failure.
C16_TotalDefaults ==
  \A t \in Tasks :
    (inv[t].tool \in TotalTools /\ Returned(t)) =>
      LET r == response[t]["ret"]
      IN (/\ Elements(r) # <<>>
          /\ \A i \in DOMAIN Elements(r) : HasRequired(Elements(r)[i])
          /\ ~Has(r, "total"))
           => /\ result[t].kind = "list"
              /\ result[t].total = I(Len(Elements(r)))

\* The tools that print the id of the resource a get, create or update
\* returned.
IdTools ==
  {"get_project", "get_work_package", "create_project", "create_work_package",
   "update_work_package", "update_project"}

\* C18: when get_project, get_work_package, create_project,
\* create_work_package, update_work_package or update_project gets back a
\* resource without `id`, the invocation ends with the error outcome; a
\* resource with id, name and subject but without its optional _embedded
\* fields ends with the success outcome.
C18_MissingIdFails ==
  \A t \in Tasks :
    (inv[t].tool \in IdTools /\ Returned(t)) =>
      LET r == response[t]["ret"]
      IN /\ ~Has(r, "id") => result[t].kind = "error"
         /\ HasRequired(r) => result[t].kind = "ok"

\* update_project got back a project without id and ended with the KeyError
\* text.
C18_Witness ==
  /\ inv[1].tool = "update_project"
  /\ Returned(1)
  /\ response[1]["ret"] = NoIdItem
  /\ result[1] = Error(KeyErrorMsg("id"))

(***************************************************************************)
(* Membership roles and unknown statuses.                                  *)
(***************************************************************************)
MembershipTools == {"create_membership", "update_membership"}

\* C19: a create_membership or update_membership payload never has both
\* role_ids and role_id; a non-empty role_ids is sent as given and role_id
\* dropped, the call being made all the same; role_id is in the payload
\* only if role_ids is None or empty.
C19_OneRoleField ==
  \A t \in Tasks :
    (inv[t].tool \in MembershipTools /\ BodyRan(t)) =>
      LET a == inv[t].args
          tool == inv[t].tool
          sent == OpCalls(t, tool)
      IN /\ \A c \in sent :
              /\ ~({"role_ids", "role_id"} \subseteq Keys(c.data))
              /\ Truthy(a.role_ids) =>
                   /\ "role_ids" \in Keys(c.data)
                   /\ c.data["role_ids"] = a.role_ids
              /\ "role_id" \in Keys(c.data) =>
                   /\ ~Truthy(a.role_ids)
                   /\ c.data["role_id"] = a.role_id
         /\ (Truthy(a.role_ids) /\ a.role_id # None
               /\ (tool = "create_membership" =>
                     Truthy(a.user_id) \/ Truthy(a.group_id)))
              => /\ NumCalls(t, tool) = 1
                 /\ pc[t] = "done" /\ Has(response[t], "ret")
                      => result[t] = Ok

\* update_membership was given role_ids [1] and role_id 1 and sent role_ids
\* alone.
C19_Witness ==
  /\ inv[1].tool = "update_membership"
  /\ inv[1].args.role_ids = L(<<I(1)>>)
  /\ inv[1].args.role_id = I(1)
  /\ pc[1] = "call"
  /\ \E c \in OpCalls(1, "update_membership") : Keys(c.data) = {"role_ids"}

\* C20: list_work_packages with a status other than exactly "open" or
\* "closed" ("all", "Open", "") calls get_work_packages once with filters
\* None, and returns no error of its own before the call.
C20_UnknownStatusNoFilter ==
  \A t \in Tasks :
    (inv[t].tool = "list_work_packages" /\ BodyRan(t)
       /\ inv[t].args.status \notin {S("open"), S("closed")}) =>
      /\ NumCalls(t, "get_work_packages") = 1
      /\ \A c \in OpCalls(t, "get_work_packages") : c.filters = None

\* list_work_packages was given status "Open" and awaits get_work_packages
\* called without filters.
C20_Witness ==
  /\ inv[1].tool = "list_work_packages"
  /\ inv[1].args.status = S("Open")
  /\ pc[1] = "call"
  /\ \E c \in OpCalls(1, "get_work_packages") : c.filters = None

(***************************************************************************)
(* The startup connectivity test.                                          *)
(***************************************************************************)
\* The tasks suspended in get_client at `await client.test_connection()`.
StartupTesting == { t \in Tasks : pc[t] = "get_client" }

TestOnStartup ==
  Lower(Getenv("TEST_CONNECTION_ON_STARTUP", S("false")).str) = "true"

\* C21: the startup test is awaited by at most one task, only when
\* TEST_CONNECTION_ON_STARTUP is "true", and once it has started the handle
\* is installed for good, its failure included; it starts only in the step of
\* get_client that constructs the client and sets the handle, and never
\* starts again; when it completes, failed or not, the handle is unchanged
\* and the constructing invocation goes on with its own handler body.
C21_StartupTest ==
  /\ [](/\ Cardinality(StartupTesting) <= 1
        /\ (startup = "pending") <=> (StartupTesting # {})
        /\ startup # "none" =>
             /\ TestOnStartup
             /\ client # None
             /\ constructed = 1)
  /\ [][/\ startup' # startup =>
             \/ /\ startup = "none" /\ startup' = "pending"
                /\ client = None /\ client' # None
                /\ constructed' = constructed + 1
             \/ startup = "pending" /\ startup' \in {"ok", "failed"}
        /\ \A t \in Tasks :
             (pc[t] = "get_client" /\ pc'[t] # "get_client") =>
               LET step == ToolBody(inv[t].tool, inv[t].args)
               IN /\ client' = client
                  /\ handle'[t] = client
                  /\ IF step.kind = "return"
                     THEN pc'[t] = "done" /\ result'[t] = step.result
                     ELSE /\ pc'[t] = "call"
                          /\ calls'[t] = Append(calls[t], step.call)]_vars

\* While task 1 still awaits the startup test inside get_client, task 2 has
\* obtained the handle, called its operation with it and got the answer.
C21_Witness ==
  /\ pc[1] = "get_client"
  /\ startup = "pending"
  /\ pc[2] = "done"
  /\ handle[2] = client
  /\ Has(response[2], "ret")
  /\ Len(calls[2]) = 1

====
